---- MODULE Spec2Model ----
(***************************************************************************)
(* Model of src/function_app.py: the timer-triggered function              *)
(* disaster_message_scheduler and its helper send_teams_webhook.           *)
(*                                                                         *)
(* One run of the function is cut into its stages (load the stored id,    *)
(* call the API and sort, scan for new messages, send to Event Hubs,       *)
(* notify Teams, save the id); runs never overlap.  Text values are        *)
(* sequences of one-character strings, so that int(), str(), strip() and   *)
(* string comparison are computed as Python computes them.                 *)
(***************************************************************************)
EXTENDS Integers, Sequences, FiniteSets, TLC

\* ------------------------------------------------------------- bounds
\* Largest integer SN a message of the modelled responses carries.
MaxSN == 3
\* Largest number of messages in one modelled API response.
MaxLen == 3
\* The same two bounds where the history of several runs is followed.
MaxHistSN == 2
MaxHistLen == 2

\* ------------------------------------------------------------- text
\* The characters of the modelled texts, in code-point order.
Alphabet == <<" ", "0", "1", "2", "3", "4", "5", "6", "7", "8", "9", "a">>

Ord(c) == CHOOSE i \in 1..Len(Alphabet) : Alphabet[i] = c

DigitChars == {"0", "1", "2", "3", "4", "5", "6", "7", "8", "9"}

DigitVal(c) == Ord(c) - Ord("0")

\* Python's < on str: the first differing character decides, a proper
\* prefix is smaller.
RECURSIVE StrLess(_, _)
StrLess(a, b) ==
    IF b = <<>> THEN FALSE
    ELSE IF a = <<>> THEN TRUE
    ELSE IF Head(a) # Head(b) THEN Ord(Head(a)) < Ord(Head(b))
    ELSE StrLess(Tail(a), Tail(b))

RECURSIVE LStrip(_)
LStrip(s) == IF s # <<>> /\ Head(s) = " " THEN LStrip(Tail(s)) ELSE s

RECURSIVE RStrip(_)
RStrip(s) ==
    IF s # <<>> /\ s[Len(s)] = " " THEN RStrip(SubSeq(s, 1, Len(s) - 1)) ELSE s

\* str.strip()
Strip(s) == RStrip(LStrip(s))

\* int(s) succeeds: surrounding blanks are allowed, then digits only.
\* A False answer is a ValueError.
IsInt(s) ==
    LET t == Strip(s)
    IN  t # <<>> /\ \A i \in 1..Len(t) : t[i] \in DigitChars

RECURSIVE DigitsValue(_, _)
DigitsValue(t, acc) ==
    IF t = <<>> THEN acc ELSE DigitsValue(Tail(t), 10 * acc + DigitVal(Head(t)))

\* int(s) for a text that IsInt
IntOf(s) == DigitsValue(Strip(s), 0)

\* str(n) for an integer n >= 0
RECURSIVE StrOfInt(_)
StrOfInt(n) ==
    IF n < 10 THEN <<Alphabet[Ord("0") + n]>>
    ELSE StrOfInt(n \div 10) \o <<Alphabet[Ord("0") + (n % 10)]>>

\* ------------------------------------------------------------- messages
\* The value under "SN" of a message: a JSON number, a JSON string, or no
\* such key.  One record shape for all three.
IntSN(n) == [t |-> "int", n |-> n, s |-> <<>>]
StrSN(s) == [t |-> "str", n |-> 0, s |-> s]
NoSN == [t |-> "missing", n |-> 0, s |-> <<>>]

\* A message of the API's "body" list; the other fields are passed through
\* to Event Hubs and Teams and take no part in any decision.
Msg(crt, sn) == [CRT_DT |-> crt, SN |-> sn]

\* x.get("SN", 0) of the sort key
KeySN(msg) == IF msg.SN.t = "missing" THEN IntSN(0) ELSE msg.SN

\* Python's < between two SN key values is defined (no TypeError)
SameType(a, b) == a.t = b.t

\* Tuple comparison (x.CRT_DT, x.SN) < (y.CRT_DT, y.SN): the first component
\* that differs decides.
KeyLess(x, y) ==
    IF x.CRT_DT # y.CRT_DT THEN StrLess(x.CRT_DT, y.CRT_DT)
    ELSE IF KeySN(x) = KeySN(y) THEN FALSE
    ELSE IF KeySN(x).t = "int" THEN KeySN(x).n < KeySN(y).n
    ELSE StrLess(KeySN(x).s, KeySN(y).s)

\* sorted() raises TypeError: two messages tie on CRT_DT and their SN keys
\* differ and are of different types.  Any comparison sort compares such a
\* pair, directly or through a message between them that ties as well.
SortRaises(C) ==
    \E i, j \in 1..Len(C) :
        /\ C[i].CRT_DT = C[j].CRT_DT
        /\ KeySN(C[i]) # KeySN(C[j])
        /\ ~SameType(KeySN(C[i]), KeySN(C[j]))

\* Place x into the descending sequence S behind every element that is not
\* smaller than it (stable: equal keys keep their order of arrival).
RECURSIVE InsertDesc(_, _)
InsertDesc(x, S) ==
    IF S = <<>> THEN <<x>>
    ELSE IF KeyLess(Head(S), x) THEN <<x>> \o S
    ELSE <<Head(S)>> \o InsertDesc(x, Tail(S))

RECURSIVE SortFrom(_, _, _)
SortFrom(C, i, acc) ==
    IF i > Len(C) THEN acc ELSE SortFrom(C, i + 1, InsertDesc(C[i], acc))

\* sorted(messages_from_api, key=(CRT_DT, SN), reverse=True)
SortedDesc(C) == SortFrom(C, 1, <<>>)

\* ------------------------------------------------------------- the scan
\* int(current_msg_id) if current_msg_id is not None else 0 raises ValueError
SnRaises(sn) == sn.t = "str" /\ ~IsInt(sn.s)

SnInt(sn) ==
    IF sn.t = "missing" THEN 0
    ELSE IF sn.t = "int" THEN sn.n
    ELSE IntOf(sn.s)

\* int(last_processed_msg_id) if last_processed_msg_id else 0 raises
LastRaises(last) == last # <<>> /\ ~IsInt(last)

LastInt(last) == IF last = <<>> THEN 0 ELSE IntOf(last)

\* (variant: any id other than the stored one counts as new)
NotSame(cur, old) == cur # old

\* (variant: an id equal to the stored one counts as new)
NewerOrSame(cur, old) == cur >= old

NewerThan(cur, old) == cur > old

\* (variant: a ValueError ends the loop instead of skipping the message)
RECURSIVE ScanStopsAtBad(_, _, _, _, _)
ScanStopsAtBad(C, i, last, found, recent) ==
    IF i > Len(C) THEN [found |-> found, recent |-> recent]
    ELSE IF SnRaises(C[i].SN) \/ LastRaises(last)
         THEN [found |-> found, recent |-> recent]
    ELSE IF NewerThan(SnInt(C[i].SN), LastInt(last))
         THEN ScanStopsAtBad(C, i + 1, last, Append(found, C[i]),
                             IF SnInt(C[i].SN) > LastInt(recent)
                             THEN StrOfInt(SnInt(C[i].SN)) ELSE recent)
    ELSE [found |-> found, recent |-> recent]

\* The for loop over latest_messages_from_api from index i on, with the
\* values new_messages_found and current_most_recent_id have so far; r is
\* the value the iteration assigns to current_most_recent_id.
RECURSIVE ScanFrom(_, _, _, _, _)
ScanFrom(C, i, last, found, recent) ==
    IF i > Len(C) THEN [found |-> found, recent |-> recent]
    ELSE IF SnRaises(C[i].SN) \/ LastRaises(last)
         THEN ScanFrom(C, i + 1, last, found, recent)
    ELSE IF NewerThan(SnInt(C[i].SN), LastInt(last))
         THEN CHOOSE res \in
                  {ScanFrom(C, i + 1, last, Append(found, C[i]), r) :
                     r \in {IF SnInt(C[i].SN) > LastInt(recent)
                            THEN StrOfInt(SnInt(C[i].SN)) ELSE recent}} : TRUE
    ELSE [found |-> found, recent |-> recent]

ScanAll(C, last) == ScanFrom(C, 1, last, <<>>, last)

\* (variant: the id of the oldest message of the batch)
IdOfOldest(found) == found[Len(found)].SN

\* new_messages_found[0].get("SN")
IdToSave(found) == found[1].SN

\* most_recent_msg_id_to_save is not None and != ""
IdValid(sn) == sn.t # "missing" /\ ~(sn.t = "str" /\ sn.s = <<>>)

\* str(most_recent_msg_id_to_save)
StrOfSN(sn) == IF sn.t = "int" THEN StrOfInt(sn.n) ELSE sn.s

\* ------------------------------------------------------------- inputs
CrtDts == {<<"1">>, <<"2">>}

SNs == {IntSN(n) : n \in 1..MaxSN} \cup {StrSN(<<"2">>), StrSN(<<"a">>), NoSN}

Msgs == {Msg(c, sn) : c \in CrtDts, sn \in SNs}

\* The "body" lists an API response can carry.
Bodies == UNION {[1..n -> Msgs] : n \in 0..MaxLen}

\* The lists the histories draw from: every SN a JSON number.
NumberedBodies ==
    UNION {[1..n -> {Msg(c, IntSN(k)) : c \in CrtDts, k \in 1..MaxHistSN}] :
             n \in 0..MaxHistLen}

\* What the blob can hold before the first run: nothing, an empty text, or a
\* text that is no integer.
NoBlob == [exists |-> FALSE, text |-> <<>>]
Blob(txt) == [exists |-> TRUE, text |-> txt]


\* json.dumps(msg, ensure_ascii=False): the JSON text of each value, in key
\* order; a text value is quoted, a number is written in decimal, a key the
\* message lacks is not written.
Quoted(s) == <<"\"">> \o s \o <<"\"">>

JsonDumps(msg) ==
    <<Quoted(msg.CRT_DT)>> \o
    (IF msg.SN.t = "missing" THEN <<>>
     ELSE IF msg.SN.t = "int" THEN <<StrOfInt(msg.SN.n)>>
     ELSE <<Quoted(msg.SN.s)>>)

\* ------------------------------------------------------------- state
VARIABLES
    pc,         \* stage the current run is at; "idle" between runs
    container,  \* the blob container exists
    blob,       \* the stored blob last_processed_disaster_msg_id.txt
    last,       \* last_processed_msg_id
    bound,      \* the local name blob_client has been assigned
    latest,     \* latest_messages_from_api
    found,      \* new_messages_found
    recent,     \* current_most_recent_id
    sent,       \* what event.set() received in this run
    log,        \* calls this run made: notifications, container creation,
                \* Event Hubs output, blob upload, in order
    dropped,    \* a notification of this run did not reach Teams
    exit,       \* how the last run ended
    blob0,      \* the blob when the current run started
    prev,       \* the previous run, kept while this run repeats its fetch
    pending     \* integer SNs that were new when fetched and have not
                \* reached Event Hubs since

run == <<pc, container, blob, last, bound, latest, found, recent, sent, log,
         dropped, exit, blob0>>

vars == <<pc, container, blob, last, bound, latest, found, recent, sent, log,
          dropped, exit, blob0, prev, pending>>

\* One call of send_teams_webhook, and the other calls the log keeps.
Note(kind) == [op |-> "notify", arg |-> kind]
CreateContainer == [op |-> "create", arg |-> "container"]
EventSet(res) == [op |-> "append", arg |-> res]
Upload(res) == [op |-> "put", arg |-> res]

\* send_teams_webhook returns None whether the message went out, the URL is
\* not configured or the POST failed; reached says which it was.
SendTeamsWebhook(reached) == dropped' = (dropped \/ ~reached)

NoPrev ==
    [valid |-> FALSE, last |-> <<>>, read |-> TRUE, latest |-> <<>>,
     found |-> <<>>, put |-> "none"]

InitBlobs == {NoBlob, Blob(<<>>), Blob(<<"a">>)}

Init ==
    /\ pc = "idle"
    /\ blob \in InitBlobs
    /\ container \in {b \in BOOLEAN : blob.exists => b}
    /\ last = <<>>
    /\ bound = FALSE
    /\ latest = <<>>
    /\ found = <<>>
    /\ recent = <<>>
    /\ sent = <<>>
    /\ log = <<>>
    /\ dropped = FALSE
    /\ exit = "none"
    /\ blob0 = blob
    /\ prev = NoPrev
    /\ pending = {}

\* ------------------------------------------------------------- one run
\* The timer fires: the locals of a new invocation.
Start ==
    /\ pc = "idle"
    /\ pc' = "load"
    /\ last' = <<>>
    /\ bound' = FALSE
    /\ latest' = <<>>
    /\ found' = <<>>
    /\ recent' = <<>>
    /\ sent' = <<>>
    /\ log' = <<>>
    /\ dropped' = FALSE
    /\ exit' = "none"
    /\ blob0' = blob
    /\ UNCHANGED <<container, blob>>

\* return out of the function
Return(how) == pc' = "idle" /\ exit' = how

\* BlobStorageConnectionString is not set.
LoadNoConnectionString ==
    /\ pc = "load"
    /\ \E reached \in BOOLEAN : SendTeamsWebhook(reached)
    /\ log' = Append(log, Note("config_blob"))
    /\ Return("config")
    /\ UNCHANGED <<container, blob, last, bound, latest, found, recent, sent, blob0>>

\* The calls a load makes on the container before it raises or finishes.
EnsureContainer == IF container THEN <<>> ELSE <<CreateContainer>>

\* (variant: a failed load ends the run)
LoadFailsReturns ==
    /\ pc = "load"
    /\ \E reached \in BOOLEAN : SendTeamsWebhook(reached)
    /\ log' = Append(log, Note("read_fail"))
    /\ Return("config")
    /\ UNCHANGED <<container, blob, last, bound, latest, found, recent, sent, blob0>>

\* The try block raises: at from_connection_string (blob_client is never
\* assigned), at container_client.exists() or create_container(), or at
\* blob_client.exists() or the download and decode.
LoadFails ==
    /\ pc = "load"
    /\ \E at \in {"connect", "container", "blob"} :
        /\ bound' = (at # "connect")
        /\ container' = (container \/ at = "blob")
        /\ log' = log \o (IF at = "blob" THEN EnsureContainer ELSE <<>>)
                      \o <<Note("read_fail")>>
    /\ \E reached \in BOOLEAN : SendTeamsWebhook(reached)
    /\ last' = <<>>
    /\ pc' = "fetch"
    /\ UNCHANGED <<blob, latest, found, recent, sent, exit, blob0>>

\* The stored text after download_blob().readall().decode().strip()
Loaded(b) == IF b.exists THEN Strip(b.text) ELSE <<>>

LoadOk ==
    /\ pc = "load"
    /\ bound' = TRUE
    /\ container' = TRUE
    /\ log' = log \o EnsureContainer
    /\ last' = Loaded(blob)
    /\ pc' = "fetch"
    /\ UNCHANGED <<blob, latest, found, recent, sent, dropped, exit, blob0>>

\* (variant: the missing key is reported and the run goes on)
FetchNoKeyGoesOn ==
    /\ pc = "fetch"
    /\ \E reached \in BOOLEAN : SendTeamsWebhook(reached)
    /\ log' = Append(log, Note("config_api"))
    /\ pc' = "scan"
    /\ UNCHANGED <<container, blob, last, bound, latest, found, recent, sent, exit, blob0>>

\* DisasterMsgApiKey is not set.
FetchNoKey ==
    /\ pc = "fetch"
    /\ \E reached \in BOOLEAN : SendTeamsWebhook(reached)
    /\ log' = Append(log, Note("config_api"))
    /\ Return("config")
    /\ UNCHANGED <<container, blob, last, bound, latest, found, recent, sent, blob0>>

\* (variant: the handlers lack their return)
FetchRaisesGoesOn ==
    /\ pc = "fetch"
    /\ \E kind \in {"request_error", "json_error"} :
        log' = Append(log, Note(kind))
    /\ \E reached \in BOOLEAN : SendTeamsWebhook(reached)
    /\ pc' = "scan"
    /\ UNCHANGED <<container, blob, last, bound, latest, found, recent, sent, exit, blob0>>

\* requests.get or raise_for_status raises (network, timeout, HTTP status),
\* or response.json() raises.
FetchRaises ==
    /\ pc = "fetch"
    /\ \E kind \in {"request_error", "json_error"} :
        log' = Append(log, Note(kind))
    /\ \E reached \in BOOLEAN : SendTeamsWebhook(reached)
    /\ Return("fetch")
    /\ UNCHANGED <<container, blob, last, bound, latest, found, recent, sent, blob0>>

\* (variant: a response without "body" ends the run like the other failures)
FetchNoBodyReturns ==
    /\ pc = "fetch"
    /\ \E reached \in BOOLEAN : SendTeamsWebhook(reached)
    /\ log' = Append(log, Note("no_body"))
    /\ Return("fetch")
    /\ UNCHANGED <<container, blob, last, bound, latest, found, recent, sent, blob0>>

\* The response has no "body" list.
FetchNoBody ==
    /\ pc = "fetch"
    /\ \E reached \in BOOLEAN : SendTeamsWebhook(reached)
    /\ log' = Append(log, Note("no_body"))
    /\ pc' = "scan"
    /\ UNCHANGED <<container, blob, last, bound, latest, found, recent, sent, exit, blob0>>

\* (variant: no handler for what the sort raises; the exception leaves the
\* function)
FetchBodyUncaught(C) ==
    /\ IF SortRaises(C)
       THEN /\ Return("raised")
            /\ UNCHANGED <<latest, log, dropped>>
       ELSE /\ latest' = SortedDesc(C)
            /\ pc' = "scan"
            /\ UNCHANGED <<log, dropped, exit>>
    /\ UNCHANGED <<container, blob, last, bound, found, recent, sent, blob0>>

\* The response carries the list C under "body".
FetchBody(C) ==
    /\ IF SortRaises(C)
       THEN /\ \E reached \in BOOLEAN : SendTeamsWebhook(reached)
            /\ log' = Append(log, Note("data_error"))
            /\ Return("fetch")
            /\ UNCHANGED latest
       ELSE /\ latest' = SortedDesc(C)
            /\ pc' = "scan"
            /\ UNCHANGED <<log, dropped, exit>>
    /\ UNCHANGED <<container, blob, last, bound, found, recent, sent, blob0>>

\* Each call of the API may return any of the modelled lists.
FetchAny == pc = "fetch" /\ \E C \in Bodies : FetchBody(C)

\* The same, the SN of every message a JSON number.
FetchNumbered == pc = "fetch" /\ \E C \in NumberedBodies : FetchBody(C)

\* The loop that fills new_messages_found.
Scan ==
    /\ pc = "scan"
    /\ found' = ScanAll(latest, last).found
    /\ recent' = ScanAll(latest, last).recent
    /\ pc' = "forward"
    /\ UNCHANGED <<container, blob, last, bound, latest, sent, log, dropped, exit, blob0>>

\* new_messages_found is empty: the else branch at the end.
NothingNew ==
    /\ pc = "forward"
    /\ found = <<>>
    /\ \E reached \in BOOLEAN : SendTeamsWebhook(reached)
    /\ log' = Append(log, Note("no_new"))
    /\ Return("done")
    /\ UNCHANGED <<container, blob, last, bound, latest, found, recent, sent, blob0>>

\* (variant: a failed event.set ends the run)
ForwardStopsOnFailure ==
    /\ pc = "forward"
    /\ found # <<>>
    /\ \/ /\ sent' = [i \in 1..Len(found) |-> JsonDumps(found[i])]
          /\ log' = Append(log, EventSet("ok"))
          /\ pc' = "notify"
          /\ UNCHANGED <<dropped, exit>>
       \/ /\ \E reached \in BOOLEAN : SendTeamsWebhook(reached)
          /\ log' = log \o <<EventSet("fail"), Note("sink_fail")>>
          /\ Return("done")
          /\ UNCHANGED sent
    /\ UNCHANGED <<container, blob, last, bound, latest, found, recent, blob0>>

\* (variant: only the newest message is sent)
ForwardNewestOnly ==
    /\ pc = "forward"
    /\ found # <<>>
    /\ \/ /\ sent' = <<JsonDumps(found[1])>>
          /\ log' = Append(log, EventSet("ok"))
          /\ UNCHANGED dropped
       \/ /\ \E reached \in BOOLEAN : SendTeamsWebhook(reached)
          /\ log' = log \o <<EventSet("fail"), Note("sink_fail")>>
          /\ UNCHANGED sent
    /\ pc' = "notify"
    /\ UNCHANGED <<container, blob, last, bound, latest, found, recent, exit, blob0>>

\* event.set(...) with the serialized messages.
Forward ==
    /\ pc = "forward"
    /\ found # <<>>
    /\ \/ /\ sent' = [i \in 1..Len(found) |-> JsonDumps(found[i])]
          /\ log' = Append(log, EventSet("ok"))
          /\ UNCHANGED dropped
       \/ /\ \E reached \in BOOLEAN : SendTeamsWebhook(reached)
          /\ log' = log \o <<EventSet("fail"), Note("sink_fail")>>
          /\ UNCHANGED sent
    /\ pc' = "notify"
    /\ UNCHANGED <<container, blob, last, bound, latest, found, recent, exit, blob0>>

\* (variant: one Teams message for the whole batch)
NotifyOnce ==
    /\ pc = "notify"
    /\ \E reached \in BOOLEAN : SendTeamsWebhook(reached)
    /\ log' = Append(log, Note("record"))
    /\ pc' = "persist"
    /\ UNCHANGED <<container, blob, last, bound, latest, found, recent, sent, exit, blob0>>

\* One Teams message per new message.
Notify ==
    /\ pc = "notify"
    /\ \E reached \in BOOLEAN : SendTeamsWebhook(reached)
    /\ log' = log \o [i \in 1..Len(found) |-> Note("record")]
    /\ pc' = "persist"
    /\ UNCHANGED <<container, blob, last, bound, latest, found, recent, sent, exit, blob0>>

\* (variant: the upload that raises has already overwritten the blob)
PersistWritesThenFails ==
    /\ pc = "persist"
    /\ IF ~IdValid(IdToSave(found))
       THEN /\ \E reached \in BOOLEAN : SendTeamsWebhook(reached)
            /\ log' = Append(log, Note("no_save_id"))
            /\ UNCHANGED blob
       ELSE \/ /\ bound /\ container
               /\ blob' = Blob(StrOfSN(IdToSave(found)))
               /\ log' = Append(log, Upload("ok"))
               /\ UNCHANGED dropped
            \/ /\ \E reached \in BOOLEAN : SendTeamsWebhook(reached)
               /\ log' = log \o <<Upload(IF bound THEN "fail" ELSE "unbound"),
                                  Note("write_fail")>>
               /\ blob' = IF bound /\ container
                          THEN Blob(StrOfSN(IdToSave(found))) ELSE blob
    /\ Return("done")
    /\ UNCHANGED <<container, last, bound, latest, found, recent, sent, blob0>>

\* (variant: a failed upload is tried a second time)
PersistTriesTwice ==
    /\ pc = "persist"
    /\ IF ~IdValid(IdToSave(found))
       THEN /\ \E reached \in BOOLEAN : SendTeamsWebhook(reached)
            /\ log' = Append(log, Note("no_save_id"))
            /\ UNCHANGED blob
       ELSE \/ /\ bound /\ container
               /\ blob' = Blob(StrOfSN(IdToSave(found)))
               /\ log' = Append(log, Upload("ok"))
               /\ UNCHANGED dropped
            \/ /\ \E reached \in BOOLEAN : SendTeamsWebhook(reached)
               /\ log' = log \o <<Upload(IF bound THEN "fail" ELSE "unbound"),
                                  Upload(IF bound THEN "fail" ELSE "unbound"),
                                  Note("write_fail")>>
               /\ UNCHANGED blob
    /\ Return("done")
    /\ UNCHANGED <<container, last, bound, latest, found, recent, sent, blob0>>

\* The upload of the id to save.  With blob_client unassigned the statement
\* raises NameError before any call; an upload needs the container.
Persist ==
    /\ pc = "persist"
    /\ IF ~IdValid(IdToSave(found))
       THEN /\ \E reached \in BOOLEAN : SendTeamsWebhook(reached)
            /\ log' = Append(log, Note("no_save_id"))
            /\ UNCHANGED blob
       ELSE \/ /\ bound /\ container
               /\ blob' = Blob(StrOfSN(IdToSave(found)))
               /\ log' = Append(log, Upload("ok"))
               /\ UNCHANGED dropped
            \/ /\ \E reached \in BOOLEAN : SendTeamsWebhook(reached)
               /\ log' = log \o <<Upload(IF bound THEN "fail" ELSE "unbound"),
                                  Note("write_fail")>>
               /\ UNCHANGED blob
    /\ Return("done")
    /\ UNCHANGED <<container, last, bound, latest, found, recent, sent, blob0>>

\* ------------------------------------------------------------- history
\* The integer the store holds, 0 when it holds none.
StoredInt(b) == IF b.exists /\ IsInt(b.text) THEN IntOf(b.text) ELSE 0

\* The integer SNs of the messages of C that are newer than the store.
Novel(C, b) ==
    {SnInt(C[i].SN) : i \in {j \in 1..Len(C) :
        ~SnRaises(C[j].SN) /\ SnInt(C[j].SN) > StoredInt(b)}}

\* The SN text of a serialized message, its quotes removed; empty when the
\* message has no SN.
SNText(j) ==
    IF Len(j) < 2 THEN <<>>
    ELSE IF Head(j[2]) = "\"" THEN SubSeq(j[2], 2, Len(j[2]) - 1)
    ELSE j[2]

\* The integer SNs of the serialized messages of S.
SNsOf(S) ==
    {IntOf(SNText(S[i])) : i \in {j \in 1..Len(S) : IsInt(SNText(S[j]))}}

\* pending gains what a successful fetch finds new and loses what Event Hubs
\* accepts.
TrackPending ==
    pending' = (IF pc = "fetch" /\ pc' = "scan"
                THEN pending \cup Novel(latest', blob) ELSE pending)
               \ (IF pc = "forward" THEN SNsOf(sent') ELSE {})

Untracked == UNCHANGED <<prev, pending>>

Next ==
    \/ Start /\ Untracked
    \/ LoadNoConnectionString /\ Untracked
    \/ LoadFails /\ Untracked
    \/ LoadOk /\ Untracked
    \/ FetchNoKey /\ Untracked
    \/ FetchRaises /\ Untracked
    \/ FetchNoBody /\ Untracked
    \/ FetchAny /\ Untracked
    \/ Scan /\ Untracked
    \/ NothingNew /\ Untracked
    \/ Forward /\ Untracked
    \/ Notify /\ Untracked
    \/ Persist /\ Untracked

Spec == Init /\ [][Next]_vars

\* The runs together with the record of what is still owed to Event Hubs.
NextOwed ==
    \/ Start /\ TrackPending /\ UNCHANGED prev
    \/ LoadNoConnectionString /\ TrackPending /\ UNCHANGED prev
    \/ LoadFails /\ TrackPending /\ UNCHANGED prev
    \/ LoadOk /\ TrackPending /\ UNCHANGED prev
    \/ FetchNoKey /\ TrackPending /\ UNCHANGED prev
    \/ FetchRaises /\ TrackPending /\ UNCHANGED prev
    \/ FetchNoBody /\ TrackPending /\ UNCHANGED prev
    \/ FetchNumbered /\ TrackPending /\ UNCHANGED prev
    \/ Scan /\ TrackPending /\ UNCHANGED prev
    \/ NothingNew /\ TrackPending /\ UNCHANGED prev
    \/ Forward /\ TrackPending /\ UNCHANGED prev
    \/ Notify /\ TrackPending /\ UNCHANGED prev
    \/ Persist /\ TrackPending /\ UNCHANGED prev

SpecOwed == Init /\ [][NextOwed]_vars

\* ------------------------------------------------------------- properties
Has(e) == \E i \in 1..Len(log) : log[i] = e

Count(e) == Cardinality({i \in 1..Len(log) : log[i] = e})

Notes == {i \in 1..Len(log) : log[i].op = "notify"}

Calls(op) == {i \in 1..Len(log) : log[i].op = op}

MaxOf(S) == CHOOSE x \in S : \A y \in S : y <= x

\* The run has computed new_messages_found.
Scanned == pc \in {"forward", "notify", "persist"} \/ (pc = "idle" /\ exit = "done")

\* The watermark W of the specification: the loaded integer, 0 when the
\* loaded text is empty or no integer.
W == IF LastRaises(last) THEN 0 ELSE LastInt(last)

Parsable(m) == ~SnRaises(m.SN)

\* The positions of C at which a message with a parsable SN not above w sits.
Seen(C, w) == {i \in 1..Len(C) : Parsable(C[i]) /\ SnInt(C[i].SN) <= w}

\* The messages of C before the first seen one, the unparsable ones left out.
NewPrefix(C, w) ==
    LET k == IF Seen(C, w) = {} THEN Len(C) + 1
             ELSE CHOOSE i \in Seen(C, w) : \A j \in Seen(C, w) : i <= j
    IN  SelectSeq(SubSeq(C, 1, k - 1), Parsable)

FetchErrors == {Note("request_error"), Note("json_error"), Note("data_error")}

\* C2: whenever a run writes the store, the value written is the largest of
\* the loaded watermark and the integer SNs of the messages of the batch.
C2_WritesMaxOfBatch ==
    (pc = "idle" /\ Has(Upload("ok")) /\ ~LastRaises(last)) =>
        /\ IsInt(blob.text)
        /\ IntOf(blob.text) =
             MaxOf({LastInt(last)} \cup {SnInt(found[i].SN) : i \in 1..Len(found)})

\* C3: every message of the batch has an integer SN above the loaded
\* watermark W, and the batch is empty when no fetched message has one.
C3_BatchAboveWatermark ==
    Scanned =>
        /\ \A i \in 1..Len(found) :
              Parsable(found[i]) /\ SnInt(found[i].SN) > W
        /\ (\A j \in 1..Len(latest) :
              ~(Parsable(latest[j]) /\ SnInt(latest[j].SN) > W)) => found = <<>>

C3_Witness ==
    /\ Scanned
    /\ W >= 1
    /\ found # <<>>
    /\ Len(found) < Len(latest)

\* C4: with an integer watermark, the batch is the sorted list up to the
\* first message whose SN is not above the watermark, in the same order; with
\* no such message it is every message whose SN parses (a message without SN
\* counts as SN 0, as the scan takes it).
C4_BatchIsNewPrefix ==
    (Scanned /\ ~LastRaises(last)) =>
        /\ found = NewPrefix(latest, LastInt(last))
        /\ \A k \in 1..Len(latest) :
              (/\ k \in Seen(latest, LastInt(last))
               /\ \A j \in 1..(k - 1) :
                     Parsable(latest[j]) /\ SnInt(latest[j].SN) > LastInt(last))
              => found = SubSeq(latest, 1, k - 1)
        /\ Seen(latest, LastInt(last)) = {} => found = SelectSeq(latest, Parsable)

C4_Witness ==
    /\ Scanned
    /\ LastInt(last) >= 1
    /\ Len(found) = 2
    /\ Len(latest) = 3
    /\ 3 \in Seen(latest, LastInt(last))

\* C5 as stated: a run that ends on a fetch failure has sent one notification
\* in all, made no Event Hubs output and no upload, and left the blob alone.
C5_OneNotificationInAll ==
    (pc = "idle" /\ exit = "fetch") =>
        /\ Cardinality(Notes) = 1
        /\ Calls("append") = {} /\ Calls("put") = {}
        /\ blob = blob0

\* C5 amended: a fetch failure is notified once and the run ends there: the
\* notification is the last call of the run, before it the run made at most
\* the calls of the load (a read-failure notification, the creation of the
\* container), there is no Event Hubs output and no upload, and the blob is
\* the one the run started with.
C5_FetchFailureEndsRun ==
    (\E e \in FetchErrors : Has(e)) =>
        /\ pc = "idle" /\ exit = "fetch"
        /\ log[Len(log)] \in FetchErrors
        /\ \A i \in 1..(Len(log) - 1) : log[i] \in {Note("read_fail"), CreateContainer}
        /\ Count(Note("read_fail")) <= 1
        /\ Calls("append") = {} /\ Calls("put") = {}
        /\ sent = <<>>
        /\ blob = blob0

C5_Witness ==
    /\ pc = "idle" /\ exit = "fetch"
    /\ Has(Note("request_error"))
    /\ blob0.exists
    /\ Len(log) = 1

C7_UnparsableIsZero ==
    (Scanned /\ LastRaises(last)) => found = ScanAll(latest, <<>>).found

C9_SinkFailureRunsOn ==
    Has(EventSet("fail")) =>
        /\ found # <<>>
        /\ Count(EventSet("fail")) = 1 /\ Count(Note("sink_fail")) = 1
        /\ \E i \in 1..(Len(log) - 1) :
              log[i] = EventSet("fail") /\ log[i + 1] = Note("sink_fail")
        /\ pc \in {"notify", "persist", "idle"}
        /\ pc \in {"persist", "idle"} => Count(Note("record")) = Len(found)
        /\ pc = "idle" =>
              /\ exit = "done"
              /\ \E i \in Calls("put") :
                    \A j \in 1..Len(log) : log[j] = Note("record") => j < i

C9_Witness ==
    /\ pc = "idle"
    /\ Has(EventSet("fail"))
    /\ Has(Upload("ok"))
    /\ Len(found) = 2

\* ------------------------------------------------------------- histories
\* prev keeps the loaded id, the outcome of the load, the sorted list, the
\* batch and the outcome of the upload of a run that had a batch, from the
\* start of the next run for as long as that run is one over the same list.
TrackPrev ==
    prev' =
        IF pc = "idle"
        THEN IF exit = "done" /\ found # <<>>
             THEN [valid |-> TRUE, last |-> last,
                   read |-> ~Has(Note("read_fail")), latest |-> latest,
                   found |-> found,
                   put |-> IF Has(Upload("ok")) THEN "ok" ELSE "fail"]
             ELSE NoPrev
        ELSE IF pc' = "idle" /\ exit' # "done" THEN NoPrev
        ELSE IF pc = "fetch" /\ latest' # prev.latest THEN NoPrev
        ELSE prev

NextRepeat ==
    \/ Start /\ TrackPrev /\ UNCHANGED pending
    \/ LoadNoConnectionString /\ TrackPrev /\ UNCHANGED pending
    \/ LoadFails /\ TrackPrev /\ UNCHANGED pending
    \/ LoadOk /\ TrackPrev /\ UNCHANGED pending
    \/ FetchNoKey /\ TrackPrev /\ UNCHANGED pending
    \/ FetchRaises /\ TrackPrev /\ UNCHANGED pending
    \/ FetchNoBody /\ TrackPrev /\ UNCHANGED pending
    \/ FetchNumbered /\ TrackPrev /\ UNCHANGED pending
    \/ Scan /\ TrackPrev /\ UNCHANGED pending
    \/ NothingNew /\ TrackPrev /\ UNCHANGED pending
    \/ Forward /\ TrackPrev /\ UNCHANGED pending
    \/ Notify /\ TrackPrev /\ UNCHANGED pending
    \/ Persist /\ TrackPrev /\ UNCHANGED pending

SpecRepeat == Init /\ [][NextRepeat]_vars

AllSent == sent = [i \in 1..Len(found) |-> JsonDumps(found[i])]

IsPrefix(a, b) == Len(a) <= Len(b) /\ SubSeq(b, 1, Len(a)) = a

\* C1 as stated: an SN that was new when fetched and has not reached Event
\* Hubs since is above the stored id.
C1_NovelAppendedBeforeWatermark ==
    \A n \in pending : StoredInt(blob) < n

\* C1 amended: a run writes the store only after its event.set, and when that
\* event.set succeeded, every message of the run's batch has been sent and
\* none of their SNs is still owed when the store changes.
C1_BatchSentBeforeWrite ==
    Has(Upload("ok")) =>
        /\ found # <<>>
        /\ \E i \in Calls("append") : \A j \in Calls("put") : i < j
        /\ Has(EventSet("ok")) =>
              /\ AllSent
              /\ \A k \in 1..Len(found) : SnInt(found[k].SN) \notin pending

C1_Witness ==
    /\ pc = "idle"
    /\ Has(Upload("ok")) /\ Has(EventSet("ok"))
    /\ Len(found) = 2
    /\ blob0.exists /\ IsInt(blob0.text)
    /\ pending # {}

\* The run whose upload failed: the failure is the last thing notified, the
\* blob is the one the run started with, the messages of the batch were
\* notified, and what Event Hubs accepted stays sent.
WriteFailureKeepsRun ==
    (pc = "idle" /\ (Has(Upload("fail")) \/ Has(Upload("unbound")))) =>
        /\ log[Len(log)] = Note("write_fail")
        /\ log[Len(log) - 1].op = "put"
        /\ blob = blob0
        /\ Count(Note("record")) = Len(found)
        /\ Has(EventSet("ok")) => AllSent

Submitted == pc \in {"notify", "persist", "idle"} => Calls("append") # {}

\* C10 as stated (taken for runs that load an integer or nothing): after a
\* run whose upload failed, the next run over the same list computes the same
\* batch and submits it to Event Hubs.
C10_SameBatchAgain ==
    /\ WriteFailureKeepsRun
    /\ (prev.valid /\ prev.put = "fail" /\ Scanned /\ ~LastRaises(last)) =>
          (found = prev.found /\ Submitted)

\* C10 amended: ... the next run over the same list computes the same batch
\* and submits it to Event Hubs when it loads the same id as the failed run
\* did, which it does when the read of the store succeeds in both runs.
C10_SameBatchOnSameLoad ==
    /\ WriteFailureKeepsRun
    /\ (prev.valid /\ prev.put = "fail" /\ Scanned) =>
          /\ (prev.read /\ ~Has(Note("read_fail"))) => last = prev.last
          /\ last = prev.last =>
                /\ found = prev.found
                /\ Submitted
                /\ Has(EventSet("ok")) => AllSent

C10_Witness ==
    /\ prev.valid /\ prev.put = "fail" /\ prev.read
    /\ pc = "idle" /\ exit = "done"
    /\ ~Has(Note("read_fail"))
    /\ found = prev.found
    /\ LastInt(last) >= 1
    /\ Has(EventSet("ok"))

C12_OneNotePerRecord ==
    (pc = "idle" /\ exit = "done") =>
        /\ found # <<>> =>
              /\ Count(Note("record")) = Len(found)
              /\ Count(Note("no_new")) = 0
        /\ found = <<>> =>
              /\ Count(Note("no_new")) = 1
              /\ Count(Note("record")) = 0
              /\ Calls("append") = {}
              /\ sent = <<>>
              /\ Calls("put") = {}
              /\ blob = blob0

C12_Witness ==
    /\ pc = "idle"
    /\ exit = "done"
    /\ Len(found) = 2
    /\ Count(Note("record")) = 2
    /\ Has(Upload("ok"))

\* ------------------------------------------------------------- text SNs
\* The API transmits every SN as a JSON string: two decimal texts of
\* different length and one text that is no number.
TextSNs == {StrSN(<<"2">>), StrSN(<<"1", "0">>), StrSN(<<"a">>)}

TextBodies ==
    UNION {[1..n -> {Msg(c, sn) : c \in CrtDts, sn \in TextSNs}] : n \in 0..MaxLen}

FetchTexts == pc = "fetch" /\ \E C \in TextBodies : FetchBody(C)

NextTexts ==
    \/ Start /\ Untracked
    \/ LoadNoConnectionString /\ Untracked
    \/ LoadFails /\ Untracked
    \/ LoadOk /\ Untracked
    \/ FetchNoKey /\ Untracked
    \/ FetchRaises /\ Untracked
    \/ FetchNoBody /\ Untracked
    \/ FetchTexts /\ Untracked
    \/ Scan /\ Untracked
    \/ NothingNew /\ Untracked
    \/ Forward /\ Untracked
    \/ Notify /\ Untracked
    \/ Persist /\ Untracked

SpecTexts == Init /\ [][NextTexts]_vars

\* (created_at, sequence_id) of x below that of y, the SN taken as a number
NumLess(x, y) ==
    IF x.CRT_DT # y.CRT_DT THEN StrLess(x.CRT_DT, y.CRT_DT)
    ELSE SnInt(x.SN) < SnInt(y.SN)

\* C13: whatever the order the messages arrive in, the batch is newest first
\* by (CRT_DT, SN), CRT_DT compared as text and SN as a number: no message of
\* the batch stands before one that is newer than it.
C13_BatchNewestFirstByNumber ==
    Scanned =>
        \A i, j \in 1..Len(found) : i < j => ~NumLess(found[i], found[j])

\* C14: a run that ended for a missing setting (the connection string or the
\* API key) made one notification in all and no other call: nothing to Event
\* Hubs, no upload, no container created, the blob as it was.
C14_MissingSettingOneNote ==
    (pc = "idle" /\ exit = "config") =>
        /\ Cardinality(Notes) = 1
        /\ Calls("append") = {}
        /\ Calls("put") = {}
        /\ Calls("create") = {}
        /\ blob = blob0

\* C14 (amended): the missing connection string ends the run with its one
\* notification and no other call.  The missing API key is found after the
\* load: the run ends with one notification of it, behind at most the
\* creation of the container and the notification of a failed load; nothing
\* reaches Event Hubs and nothing is uploaded.
C14_MissingSettingEndsRun ==
    /\ Has(Note("config_blob")) =>
          /\ pc = "idle" /\ exit = "config"
          /\ log = <<Note("config_blob")>>
          /\ sent = <<>>
          /\ blob = blob0
    /\ Has(Note("config_api")) =>
          /\ pc = "idle" /\ exit = "config"
          /\ Count(Note("config_api")) = 1
          /\ log[Len(log)] = Note("config_api")
          /\ \A i \in 1..(Len(log) - 1) :
                log[i] \in {CreateContainer, Note("read_fail")}
          /\ Count(CreateContainer) <= 1
          /\ Count(Note("read_fail")) <= 1
          /\ sent = <<>>
          /\ blob = blob0

C14_Witness ==
    /\ pc = "idle"
    /\ exit = "config"
    /\ log = <<CreateContainer, Note("read_fail"), Note("config_api")>>

\* C15: the id a run means to save is an integer not below the watermark W
\* it loaded, and what a successful upload stores is that id; with an empty
\* batch the run keeps the loaded id and uploads nothing.
C15_IdToSaveNotBelowLoaded ==
    Scanned =>
        /\ found # <<>> =>
              /\ IdValid(IdToSave(found))
              /\ IsInt(StrOfSN(IdToSave(found)))
              /\ IntOf(StrOfSN(IdToSave(found))) >= W
              /\ Has(Upload("ok")) =>
                    /\ blob = Blob(StrOfSN(IdToSave(found)))
                    /\ StoredInt(blob) >= W
        /\ found = <<>> =>
              /\ recent = last
              /\ Calls("put") = {}
              /\ blob = blob0

C15_Witness ==
    /\ pc = "idle"
    /\ exit = "done"
    /\ W >= 1
    /\ found # <<>>
    /\ Has(Upload("ok"))
    /\ StoredInt(blob) > W

\* The place of a stage in the function body; "idle" is behind the last.
StageOf(p) ==
    CASE p = "load" -> 1
      [] p = "fetch" -> 2
      [] p = "scan" -> 3
      [] p = "forward" -> 4
      [] p = "notify" -> 5
      [] p = "persist" -> 6
      [] OTHER -> 7

\* The last call of a run that went through to the end of the function.
FinalCalls ==
    {Note("no_new"), Upload("ok"), Note("write_fail"), Note("no_save_id")}

\* The notification behind which a run returns early.
EarlyNotes(how) ==
    IF how = "config" THEN {Note("config_blob"), Note("config_api")}
    ELSE FetchErrors

C17_StagesInOrder ==
    /\ Cardinality(Calls("append")) <= 1
    /\ Calls("append") # {} => found # <<>>
    /\ Cardinality(Calls("put")) <= 1
    /\ \A p \in Calls("put") :
          /\ \E a \in Calls("append") : a < p
          /\ Count(Note("record")) = Len(found)
          /\ \A n \in Notes : log[n] = Note("record") => n < p
    /\ (pc = "idle" /\ exit = "fetch") =>
          Calls("put") = {} /\ Calls("append") = {}

C17_Witness ==
    /\ pc = "idle"
    /\ exit = "done"
    /\ Len(found) = 2
    /\ Has(EventSet("fail"))
    /\ Has(Upload("fail"))
    /\ Count(Note("record")) = 2

\* C18: in every run, a failed load included, the integer the blob holds is
\* never below the integer it held when the run started.
C18_StoredNeverDecreases == StoredInt(blob) >= StoredInt(blob0)

\* C18 (amended): in a run whose load did not fail the blob is left as it
\* was or holds a greater integer than when the run started.
C18_StoredGrowsOnGoodLoad ==
    ~Has(Note("read_fail")) =>
        \/ blob = blob0
        \/ StoredInt(blob) > StoredInt(blob0)

C18_Witness ==
    /\ pc = "idle"
    /\ exit = "done"
    /\ ~Has(Note("read_fail"))
    /\ Has(Upload("ok"))
    /\ StoredInt(blob0) >= 1
    /\ StoredInt(blob) > StoredInt(blob0)

\* C19: a run that follows one which gave Event Hubs a batch and uploaded
\* its id, loads that id and fetches the same list, finds nothing new: it
\* gives Event Hubs nothing, uploads nothing and sends the one "no new
\* messages" notification.
C19_SameListNothingNew ==
    (prev.valid /\ prev.put = "ok" /\ ~Has(Note("read_fail")) /\ Scanned) =>
        /\ last = StrOfSN(IdToSave(prev.found))
        /\ found = <<>>
        /\ Calls("append") = {}
        /\ sent = <<>>
        /\ Calls("put") = {}
        /\ blob = blob0
        /\ pc = "idle" =>
              /\ Cardinality(Notes) = 1
              /\ Has(Note("no_new"))

C19_Witness ==
    /\ prev.valid /\ prev.put = "ok"
    /\ Len(prev.found) = 2
    /\ ~Has(Note("read_fail"))
    /\ pc = "idle" /\ exit = "done"
    /\ latest = prev.latest
    /\ log = <<Note("no_new")>>

====
